---- MODULE Spec2Model ----
(***************************************************************************)
(* The device switch of the V6 Unix emulation (package v6unix): the error  *)
(* taxonomy Errno, the switch table devtab with Proc.dev, and the pseudo-  *)
(* devices errdev, nulldev and memdev.                                     *)
(*                                                                         *)
(* Go slices and arrays are 0-indexed, TLA+ sequences 1-indexed: index i   *)
(* of the source is index i + 1 here.  A string is the sequence of its     *)
(* characters, a byte buffer the sequence of its bytes (0..255).           *)
(*                                                                         *)
(* The types Proc, System, procState, TTY and TDev and the flag _SLOAD are *)
(* declared outside the files modelled here; what the model takes for them *)
(* is said where it is taken.  ttydev's methods are outside them too: the  *)
(* table holds the variant, no operation on it is modelled.                *)
(***************************************************************************)
EXTENDS Integers, Sequences, FiniteSets, TLC

VARIABLES
    Procs,     \* p.Sys.Procs: the process table, in table order
    TTY,       \* p.Sys.TTY: the terminal table
    p,         \* the calling process: its Error field and its Mem buffer
    call,      \* the call that has just returned, with its inputs and
               \* results, until the caller takes them; op "none" between calls
    panicked   \* a run-time panic has aborted the program

vars == <<Procs, TTY, p, call, panicked>>

(***************************************************************************)
(* Bounds of the model.                                                    *)
(***************************************************************************)
\* The largest process table.
MaxProcs == 2
\* The largest terminal table: with 97 terminals the terminal window
\* [memTTY, memTTY + 97 * memTTYSize) reaches past memProcs and memText.
MaxTTY == 97

(***************************************************************************)
(* errno.go                                                                *)
(***************************************************************************)
Int8 == -128 .. 127

EPERM == 1
EIO == 5
ENXIO == 6
ENOTTY == 24
EFAULT == 106

enames ==
  <<
     <<>>,   \* 0
     <<"E", "P", "E", "R", "M">>,   \* 1
     <<"E", "N", "O", "E", "N", "T">>,   \* 2
     <<"E", "S", "R", "C", "H">>,   \* 3
     <<"E", "I", "N", "T", "R">>,   \* 4
     <<"E", "I", "O">>,   \* 5
     <<"E", "N", "X", "I", "O">>,   \* 6
     <<"E", "2", "B", "I", "G">>,   \* 7
     <<"E", "N", "O", "E", "X", "E", "C">>,   \* 8
     <<"E", "B", "A", "D", "F">>,   \* 9
     <<"E", "C", "H", "I", "L", "D">>,   \* 10
     <<"E", "A", "G", "A", "I", "N">>,   \* 11
     <<"E", "N", "O", "M", "E", "M">>,   \* 12
     <<"E", "A", "C", "C", "E", "S">>,   \* 13
     <<"E", "N", "O", "T", "B", "L", "K">>,   \* 14
     <<"E", "B", "U", "S", "Y">>,   \* 15
     <<"E", "E", "X", "I", "S", "T">>,   \* 16
     <<"E", "X", "D", "E", "V">>,   \* 17
     <<"E", "N", "O", "D", "E", "V">>,   \* 18
     <<"E", "N", "O", "T", "D", "I", "R">>,   \* 19
     <<"E", "I", "S", "D", "I", "R">>,   \* 20
     <<"E", "I", "N", "V", "A", "L">>,   \* 21
     <<"E", "N", "F", "I", "L", "E">>,   \* 22
     <<"E", "M", "F", "I", "L", "E">>,   \* 23
     <<"E", "N", "O", "T", "T", "Y">>,   \* 24
     <<"E", "T", "X", "T", "B", "S", "Y">>,   \* 25
     <<"E", "F", "B", "I", "G">>,   \* 26
     <<"E", "N", "O", "S", "P", "C">>,   \* 27
     <<"E", "S", "P", "I", "P", "E">>,   \* 28
     <<"E", "R", "O", "F", "S">>,   \* 29
     <<"E", "M", "L", "I", "N", "K">>,   \* 30
     <<"E", "P", "I", "P", "E">>   \* 31
  >>

Digits == <<"0", "1", "2", "3", "4", "5", "6", "7", "8", "9">>

RECURSIVE DecNat(_)
\* The decimal digits of n >= 0, as %d prints them.
DecNat(n) ==
    IF n < 10 THEN <<Digits[n + 1]>>
    ELSE DecNat(n \div 10) \o <<Digits[(n % 10) + 1]>>

\* fmt.Sprintf("Errno(%d)", n)
SprintfErrno(n) ==
    <<"E", "r", "r", "n", "o", "(">>
        \o (IF n < 0 THEN <<"-">> \o DecNat(-n) ELSE DecNat(n))
        \o <<")">>

\* A bug Error could have: no case for EFAULT.
ErrorNoEFAULT(e) ==
    IF 0 <= e /\ e < Len(enames) /\ enames[e + 1] # <<>>
    THEN enames[e + 1]
    ELSE SprintfErrno(e)

\* func (e Errno) Error() string
Error(e) ==
    IF e = EFAULT THEN <<"E", "F", "A", "U", "L", "T">>
    ELSE IF 0 <= e /\ e < Len(enames) /\ enames[e + 1] # <<>>
         THEN enames[e + 1]
         ELSE SprintfErrno(e)

(***************************************************************************)
(* The device switch.                                                      *)
(***************************************************************************)
\* An unset slot of devtab.
nil == "nil"

devtab == <<"errdev", "nulldev", "memdev", "nulldev", "ttydev">>

\* A bug dev could have: the bound tested against the last index.
devOffByOne(major) ==
    LET m == IF major > Len(devtab) THEN 0 ELSE major
    IN  IF m + 1 \in DOMAIN devtab THEN devtab[m + 1] ELSE nil

\* func (p *Proc) dev(major uint8) device
dev(major) ==
    LET m == IF major >= Len(devtab) \/ devtab[major + 1] = nil
             THEN 0 ELSE major
    IN  devtab[m + 1]

(***************************************************************************)
(* Byte buffers.                                                           *)
(***************************************************************************)
\* clear(b)
clear(b) == [k \in 1 .. Len(b) |-> 0]

\* copy(dst, src): min(len(dst), len(src)) bytes, the rest of dst kept.
copy(dst, src) ==
    [k \in 1 .. Len(dst) |-> IF k <= Len(src) THEN src[k] ELSE dst[k]]

\* What a device method does: the caller's Error after it, the buffer after
\* it, the count it returns, whether it panicked, the process table after it.
Effect(err, b, ret, pan, procs) ==
    [Error |-> err, b |-> b, ret |-> ret, panic |-> pan, Procs |-> procs]

(***************************************************************************)
(* errdev: every operation fails.                                          *)
(***************************************************************************)
errdev_open(minor, rw) == Effect(ENXIO, <<>>, 0, FALSE, Procs)

\* A bug errdev.read could have: the error is not set.
errdev_readSilent(minor, b, off) == Effect(p.Error, b, 0, FALSE, Procs)

errdev_read(minor, b, off) == Effect(ENXIO, b, 0, FALSE, Procs)

errdev_write(minor, b, off) == Effect(ENXIO, b, 0, FALSE, Procs)

errdev_close(minor) == Effect(ENXIO, <<>>, 0, FALSE, Procs)

errdev_sgtty(minor) == Effect(ENOTTY, <<>>, 0, FALSE, Procs)

(***************************************************************************)
(* nulldev: opens and closes, takes every write, reads nothing.            *)
(***************************************************************************)
nulldev_open(minor, rw) == Effect(p.Error, <<>>, 0, FALSE, Procs)

nulldev_read(minor, b, off) == Effect(p.Error, b, 0, FALSE, Procs)

\* A bug nulldev.write could have: it returns 0, as read does.
nulldev_writeZero(minor, b, off) == Effect(p.Error, b, 0, FALSE, Procs)

nulldev_write(minor, b, off) == Effect(p.Error, b, Len(b), FALSE, Procs)

nulldev_close(minor) == Effect(p.Error, <<>>, 0, FALSE, Procs)

nulldev_sgtty(minor) == Effect(ENOTTY, <<>>, 0, FALSE, Procs)

(***************************************************************************)
(* memdev: the kernel memory that ps reads.                                *)
(***************************************************************************)
memSwapDev == 780     \* 0o001414
memProcs == 2694      \* 0o005206
memTTY == 1024        \* 0o002000
memTTYSize == 32      \* 16 * 2
memText == 4096       \* 0o010000

\* The bytes of one per-process read.
memReadLen == 512

\* _SLOAD, the "in core" bit of procState.flag (declared outside the files
\* modelled; 01 in the V6 kernel).
SLOAD == 1

\* flag | bit on a uint8, bit a power of two.
BitOr(flag, bit) == IF (flag \div bit) % 2 = 1 THEN flag ELSE flag + bit

\* The layout of procState (declared outside the files modelled): the
\* record's raw bytes, fields in order, 16-bit fields little-endian.
procStateBytes(ps) ==
    <<ps.Status, ps.flag,
      ps.Pid % 256, ps.Pid \div 256,
      ps.addr % 256, ps.addr \div 256,
      ps.size % 256, ps.size \div 256>>

\* unsafe.Sizeof(procState{})
procStateSize == 8

\* unsafe.Sizeof(TDev{}) (declared outside the files modelled): the header
\* fills its memTTYSize window.
TDevSize == 32

\* The four cases of memdev.read, as its four if statements test them.
isSwapDev(off, n) == off = memSwapDev /\ n = 2

isProcs(off) == off = memProcs

isText(off, n) ==
    /\ memText <= off
    /\ off < memText + 64 * Len(Procs)
    /\ off % 64 = 0                       \* off&63 == 0, off >= memText
    /\ n = memReadLen

\* A bug the terminal case could have: the length is not tested.
isTTYAnyLen(off, n) ==
    /\ memTTY <= off
    /\ off < memTTY + Len(TTY) * memTTYSize
    /\ (off - memTTY) % memTTYSize = 0

isTTY(off, n) ==
    /\ memTTY <= off
    /\ off < memTTY + Len(TTY) * memTTYSize
    /\ (off - memTTY) % memTTYSize = 0
    /\ n = memTTYSize

\* The loop body of the process-table case on the loop's variable p1:
\* the record appended to procs (i is the source's index, from 0).
patched(ps, i) ==
    [ps EXCEPT !.flag = BitOr(ps.flag, SLOAD),
               !.addr = (memText \div 64 + i) % 65536,
               !.size = 8]

\* procs after the loop.
snapshot(procs) ==
    [i \in 1 .. Len(procs) |-> patched(procs[i].procState, i - 1)]

\* The process table after the loop.  p1 is an element of p.Sys.Procs, used
\* as the *Proc p is (p1.Mem beside p.Mem, p1 := p.Sys.Procs[i] where the
\* terminal table, a table of values, is read through &p.Sys.TTY[i]): the
\* table holds references to the live processes, and the loop's three
\* assignments through p1 are made to the live records.
rangeProcs(procs) ==
    [i \in 1 .. Len(procs) |->
        [procs[i] EXCEPT !.procState = patched(procs[i].procState, i - 1)]]

RECURSIVE flatten(_)
\* The raw bytes of a slice of procState: the records one after another.
flatten(recs) ==
    IF recs = <<>> THEN <<>>
    ELSE procStateBytes(Head(recs)) \o flatten(Tail(recs))

\* if off == memProcs { ... }: on an empty table the loop leaves procs nil
\* and &procs[0] panics (index out of range), before b is touched.
procsCase(b) ==
    LET procs == snapshot(Procs)
        pb    == flatten(procs)
    IN  IF Len(procs) = 0
        THEN Effect(p.Error, b, 0, TRUE, rangeProcs(Procs))
        ELSE Effect(p.Error, copy(clear(b), pb), Len(pb), FALSE,
                    rangeProcs(Procs))

\* The per-process case: the slice starts at len(p.Mem)-512, p the caller,
\* and panics when that is no index of p1.Mem.
textCase(b, off) ==
    LET p1 == Procs[(off - memText) \div 64 + 1]
        lo == Len(p.Mem) - memReadLen
    IN  IF lo < 0 \/ lo > Len(p1.Mem)
        THEN Effect(p.Error, b, 0, TRUE, Procs)
        ELSE Effect(p.Error, copy(b, SubSeq(p1.Mem, lo + 1, Len(p1.Mem))),
                    Len(b), FALSE, Procs)

\* The terminal case.
ttyCase(b, off) ==
    LET i  == (off - memTTY) \div memTTYSize
        tb == TTY[i + 1].TDev
    IN  Effect(p.Error, copy(clear(b), tb), Len(tb), FALSE, Procs)

memdev_open(minor, rw) == Effect(p.Error, <<>>, 0, FALSE, Procs)

\* func (memdev) read(p *Proc, minor uint8, b []byte, off int) int
memdev_read(minor, b, off) ==
    IF isSwapDev(off, Len(b))
    THEN Effect(p.Error, [b EXCEPT ![1] = 1, ![2] = 3], 2, FALSE, Procs)
    ELSE IF isProcs(off) THEN procsCase(b)
    ELSE IF isText(off, Len(b)) THEN textCase(b, off)
    ELSE IF isTTY(off, Len(b)) THEN ttyCase(b, off)
    ELSE Effect(p.Error, b, 0, FALSE, Procs)

\* A bug memdev.write could have: the write is taken, as nulldev takes it.
memdev_writeTaken(minor, b, off) == Effect(p.Error, b, Len(b), FALSE, Procs)

memdev_write(minor, b, off) == Effect(EPERM, b, 0, FALSE, Procs)

memdev_close(minor) == Effect(p.Error, <<>>, 0, FALSE, Procs)

memdev_sgtty(minor) == Effect(ENOTTY, <<>>, 0, FALSE, Procs)

(***************************************************************************)
(* The system a call runs in.                                              *)
(***************************************************************************)
MemLens == <<512, 1024, 576>>
Flags == <<0, 9, 2>>
Addrs == <<0, 300, 64>>
Sizes == <<8, 0, 700>>

\* A memory buffer of n bytes, no two of its 512-byte windows alike.
MemOf(n, seed) == [k \in 1 .. n |-> (k * seed + seed) % 251]

\* The k-th process the model draws its tables from.
Shape(k) ==
    LET j == ((k - 1) % 3) + 1
    IN  [procState |-> [Status |-> k, flag |-> Flags[j], Pid |-> 255 + k,
                        addr |-> Addrs[j], size |-> Sizes[j]],
         Mem |-> MemOf(MemLens[j], k)]

\* The j-th terminal's header, as its raw bytes.
Term(j) == [TDev |-> [k \in 1 .. TDevSize |-> (3 * j + k) % 256]]

\* A destination or source buffer of n bytes: zeroed (fill 0) or dirty.
Buf(n, fill) == [k \in 1 .. n |-> IF fill = 0 THEN 0 ELSE 1 + (k % 255)]

Majors == {0, 1, 2, 3, 5, 255}
Minors == {0, 3}
Fills == {0, 1}
BufLens == {0, 2, 5, 32, memReadLen, memReadLen + 8}
Offs ==
    {-1, 0, memSwapDev, memTTY, memTTY + 16, memTTY + memTTYSize * (MaxTTY - 1),
     memProcs, memText, memText + 4, memText + 32, memText + 64,
     memText + 64 * MaxProcs}

\* The reads made: every buffer at every offset on the memory device, and
\* a few buffers and offsets on every device.
ReadArgs ==
    ({2} \X {0} \X BufLens \X Fills \X Offs)
        \cup (Majors \X Minors \X {0, 5} \X Fills \X {0, memProcs})

WriteArgs == Majors \X Minors \X {0, 5, 32} \X {1} \X {0, memProcs, memText}

Init ==
    /\ \E n \in 0 .. MaxProcs, v \in {0, 1} :
          /\ Procs = [i \in 1 .. n |-> Shape(i + v)]
          /\ \E e \in {0, EIO} :
                \* the caller is a process of the table, if it has any
                \/ \E c \in 1 .. n : p = [Error |-> e, Mem |-> Procs[c].Mem]
                \/ n = 0 /\ p = [Error |-> e, Mem |-> Shape(1 + v).Mem]
    /\ \E m \in {8, MaxTTY} : TTY = [j \in 1 .. m |-> Term(j)]
    /\ call = [op |-> "none"]
    /\ panicked = FALSE

\* No call is under way and the program has not been aborted.
Idle == ~panicked /\ call.op = "none"

\* The caller takes the results of the call that returned.
Return ==
    /\ ~panicked
    /\ call.op # "none"
    /\ call' = [op |-> "none"]
    /\ UNCHANGED <<Procs, TTY, p, panicked>>

\* The state after a device method returned (or panicked).
Apply(eff, c) ==
    /\ p' = [p EXCEPT !.Error = eff.Error]
    /\ Procs' = eff.Procs
    /\ panicked' = eff.panic
    /\ call' = [c EXCEPT !.b = eff.b, !.ret = eff.ret]
    /\ UNCHANGED TTY

Call(op, major, minor, blen, fill, off) ==
    [op |-> op, major |-> major, minor |-> minor, blen |-> blen,
     fill |-> fill, off |-> off, b |-> <<>>, ret |-> 0]

\* p.dev(major).open(p, minor, rw)
Open(major, minor, rw) ==
    /\ Idle
    /\ dev(major) \in {"errdev", "nulldev", "memdev"}
    /\ Apply(CASE dev(major) = "errdev" -> errdev_open(minor, rw)
               [] dev(major) = "nulldev" -> nulldev_open(minor, rw)
               [] dev(major) = "memdev" -> memdev_open(minor, rw),
             Call("open", major, minor, 0, 0, rw))

\* p.dev(major).read(p, minor, b, off)
Read(major, minor, blen, fill, off) ==
    /\ Idle
    /\ dev(major) \in {"errdev", "nulldev", "memdev"}
    /\ LET b == Buf(blen, fill)
       IN  Apply(CASE dev(major) = "errdev" -> errdev_read(minor, b, off)
                   [] dev(major) = "nulldev" -> nulldev_read(minor, b, off)
                   [] dev(major) = "memdev" -> memdev_read(minor, b, off),
                 Call("read", major, minor, blen, fill, off))

\* p.dev(major).write(p, minor, b, off)
Write(major, minor, blen, fill, off) ==
    /\ Idle
    /\ dev(major) \in {"errdev", "nulldev", "memdev"}
    /\ LET b == Buf(blen, fill)
       IN  Apply(CASE dev(major) = "errdev" -> errdev_write(minor, b, off)
                   [] dev(major) = "nulldev" -> nulldev_write(minor, b, off)
                   [] dev(major) = "memdev" -> memdev_write(minor, b, off),
                 Call("write", major, minor, blen, fill, off))

\* p.dev(major).close(p, minor)
Close(major, minor) ==
    /\ Idle
    /\ dev(major) \in {"errdev", "nulldev", "memdev"}
    /\ Apply(CASE dev(major) = "errdev" -> errdev_close(minor)
               [] dev(major) = "nulldev" -> nulldev_close(minor)
               [] dev(major) = "memdev" -> memdev_close(minor),
             Call("close", major, minor, 0, 0, 0))

\* p.dev(major).sgtty(p, minor, in, out)
Sgtty(major, minor) ==
    /\ Idle
    /\ dev(major) \in {"errdev", "nulldev", "memdev"}
    /\ Apply(CASE dev(major) = "errdev" -> errdev_sgtty(minor)
               [] dev(major) = "nulldev" -> nulldev_sgtty(minor)
               [] dev(major) = "memdev" -> memdev_sgtty(minor),
             Call("sgtty", major, minor, 0, 0, 0))

Next ==
    \/ \E major \in Majors, minor \in Minors, rw \in {0, 1} :
          Open(major, minor, rw)
    \/ \E a \in ReadArgs : Read(a[1], a[2], a[3], a[4], a[5])
    \/ \E a \in WriteArgs : Write(a[1], a[2], a[3], a[4], a[5])
    \/ \E major \in Majors, minor \in Minors : Close(major, minor)
    \/ \E major \in Majors, minor \in Minors : Sgtty(major, minor)
    \/ Return

Spec == Init /\ [][Next]_vars

\* p.dev(major), for a major number of the uint8 range.
Resolve(major) ==
    /\ Idle
    /\ call' = [op |-> "dev", major |-> major, dev |-> dev(major)]
    /\ UNCHANGED <<Procs, TTY, p, panicked>>

\* e.Error(), for an Errno of the int8 range.
ErrnoError(e) ==
    /\ Idle
    /\ call' = [op |-> "Error", e |-> e, str |-> Error(e)]
    /\ UNCHANGED <<Procs, TTY, p, panicked>>

NextPure ==
    \/ \E major \in 0 .. 255 : Resolve(major)
    \/ \E e \in Int8 : ErrnoError(e)
    \/ Return

\* The two pure functions, applied to every value of their argument's type.
SpecPure == Init /\ [][NextPure]_vars

(***************************************************************************)
(* The properties checked.                                                 *)
(***************************************************************************)
DevOps == {"open", "read", "write", "close", "sgtty"}

\* The buffer the call that returned was given, as it was before the call.
b0 == Buf(call.blen, call.fill)

\* A read of the memory device has just returned or panicked.
MemRead == call.op = "read" /\ call.major = 2

\* A device call is being made in this step.
Calling == call.op = "none" /\ call'.op \in DevOps

\* The last n bytes of a buffer.
LastBytes(mem, n) == SubSeq(mem, Len(mem) - n + 1, Len(mem))

RECURSIVE DigitsValue(_)
\* The number a sequence of decimal digits writes.
DigitsValue(ds) ==
    IF ds = <<>> THEN 0
    ELSE 10 * DigitsValue(SubSeq(ds, 1, Len(ds) - 1))
            + (CHOOSE d \in 0 .. 9 : Digits[d + 1] = ds[Len(ds)])

IsDigits(ds) ==
    /\ ds # <<>>
    /\ \A k \in 1 .. Len(ds) : \E d \in 0 .. 9 : Digits[d + 1] = ds[k]

\* s is "Errno(" a decimal number ")".
IsFallback(s) ==
    /\ Len(s) >= 8
    /\ SubSeq(s, 1, 6) = <<"E", "r", "r", "n", "o", "(">>
    /\ s[Len(s)] = ")"
    /\ IsDigits(SubSeq(s, IF s[7] = "-" THEN 8 ELSE 7, Len(s) - 1))

\* The number a fallback string embeds.
FallbackValue(s) ==
    IF s[7] = "-" THEN 0 - DigitsValue(SubSeq(s, 8, Len(s) - 1))
    ELSE DigitsValue(SubSeq(s, 7, Len(s) - 1))

\* C1: for every major number of the uint8 range dev returns a device that
\* is present; a major past the table or on an unset slot gets what major 0
\* gets, the error device; majors 1, 2, 3, 4 get the null, memory, null and
\* terminal devices.
C1_DevTotal ==
    call.op = "dev" =>
        /\ call.dev \in {"errdev", "nulldev", "memdev", "ttydev"}
        /\ call.major = 0 => call.dev = "errdev"
        /\ (call.major >= Len(devtab) \/ devtab[call.major + 1] = nil)
              => call.dev = "errdev"
        /\ call.major \in 1 .. 4 =>
              call.dev = <<"nulldev", "memdev", "nulldev", "ttydev">>[call.major]

C1_Witness == call.op = "dev" /\ call.major = 255 /\ call.dev = "errdev"

\* C2: a read at memProcs into a buffer of at least N * record_size bytes
\* returns N * record_size, for every table size N, 0 included; the buffer
\* then starts with the records in table order, record i with _SLOAD set,
\* addr = 4096/64 + i and size = 8 and its other fields as they were, and
\* every byte after them is zero.
C2_ProcsSnapshot ==
    (MemRead /\ call.off = memProcs /\ call.blen >= Len(Procs) * procStateSize)
        => /\ ~panicked
           /\ call.ret = Len(Procs) * procStateSize
           /\ Len(call.b) = call.blen
           /\ \A i \in 1 .. Len(Procs) :
                 LET ps  == Procs[i].procState
                     rec == SubSeq(call.b, (i - 1) * procStateSize + 1,
                                   i * procStateSize)
                 IN  /\ rec[1] = ps.Status
                     /\ (rec[2] \div SLOAD) % 2 = 1
                     /\ rec[3] + 256 * rec[4] = ps.Pid
                     /\ rec[5] + 256 * rec[6] = memText \div 64 + (i - 1)
                     /\ rec[7] + 256 * rec[8] = 8
           /\ \A k \in Len(Procs) * procStateSize + 1 .. call.blen :
                 call.b[k] = 0

\* C3: a read of 512 bytes at 4096 + 64 * i, i an index of the table,
\* returns 512 and fills the buffer with the last 512 bytes of process i's
\* own memory, whoever calls.
C3_TextRead ==
    (MemRead /\ call.blen = memReadLen /\ call.off >= memText
        /\ call.off < memText + 64 * Len(Procs)
        /\ (call.off - memText) % 64 = 0)
        => /\ ~panicked
           /\ call.ret = memReadLen
           /\ call.b = LastBytes(Procs[(call.off - memText) \div 64 + 1].Mem,
                                 memReadLen)

\* C4: a read at memProcs leaves the process table as it was: _SLOAD and the
\* synthetic addr and size are in the bytes returned only.
C4_TableUnchanged ==
    [][(Calling /\ call'.op = "read" /\ call'.major = 2
            /\ call'.off = memProcs) => Procs' = Procs]_vars

\* C5: every operation on the error device, reached through major 0 or
\* through any major with no device, sets the caller's Error: ENOTTY for
\* sgtty, ENXIO for the others; read and write return 0 and leave the
\* buffer alone.
C5_ErrDev ==
    (call.op \in DevOps
        /\ (call.major = 0 \/ call.major >= Len(devtab)))
        => /\ p.Error = IF call.op = "sgtty" THEN ENOTTY ELSE ENXIO
           /\ call.op \in {"read", "write"} => call.ret = 0 /\ call.b = b0

C5_Witness ==
    /\ call.op = "read" /\ call.major = 255 /\ call.blen = 5
    /\ p.Error = ENXIO /\ call.ret = 0

\* C6: a write to the memory device sets the caller's Error to EPERM,
\* returns 0 and changes nothing else: not the buffer, the process table,
\* the caller's memory or the terminal table.
C6_MemWrite ==
    [][(Calling /\ call'.op = "write" /\ call'.major = 2)
        => /\ p'.Error = EPERM
           /\ call'.ret = 0
           /\ call'.b = Buf(call'.blen, call'.fill)
           /\ ~panicked'
           /\ Procs' = Procs /\ TTY' = TTY /\ p'.Mem = p.Mem]_vars

C6_Witness ==
    /\ call.op = "write" /\ call.major = 2 /\ call.blen = 0
    /\ call.off = memProcs /\ p.Error = EPERM

\* C7: on the null device write returns len(b), read returns 0 and leaves b
\* alone; open, read, write and close leave the caller's Error as it was,
\* sgtty sets it to ENOTTY.
C7_NullDev ==
    [][(Calling /\ call'.major \in {1, 3})
        => /\ call'.op = "write" => call'.ret = call'.blen
           /\ call'.op = "read" =>
                 call'.ret = 0 /\ call'.b = Buf(call'.blen, call'.fill)
           /\ call'.op # "sgtty" => p'.Error = p.Error
           /\ call'.op = "sgtty" => p'.Error = ENOTTY]_vars

C7_Witness ==
    /\ call.op = "write" /\ call.major = 3 /\ call.blen = 32
    /\ call.ret = 32 /\ p.Error = EIO

\* C8: for every Errno of the int8 range Error returns "EFAULT" for 106,
\* the e-th name of the table for 1 <= e <= 31, these names being distinct
\* from each other and from "EFAULT", and for every other e, 0 and the
\* negative ones included, "Errno(e)" with e's decimal value.
C8_ErrorString ==
    call.op = "Error" =>
        LET e == call.e
            s == call.str
        IN  /\ e = 106 => s = <<"E", "F", "A", "U", "L", "T">>
            /\ e \in 1 .. 31 =>
                  /\ s = enames[e + 1]
                  /\ s # <<>>
                  /\ s # <<"E", "F", "A", "U", "L", "T">>
                  /\ \A e2 \in 1 .. 31 : enames[e2 + 1] = s => e2 = e
            /\ (e # 106 /\ e \notin 1 .. 31) =>
                  IsFallback(s) /\ FallbackValue(s) = e

C8_Witness ==
    /\ call.op = "Error" /\ call.e = -128
    /\ call.str = <<"E", "r", "r", "n", "o", "(", "-", "1", "2", "8", ")">>

\* The cases of memdev.read that hold of an offset and a length.
CasesOf(off, n) ==
    {k \in 1 .. 4 :
        <<isSwapDev(off, n), isProcs(off), isText(off, n), isTTY(off, n)>>[k]}

\* C9: at most one of the four cases of memdev.read holds of any offset,
\* length, process table and terminal table, also when the terminal window
\* reaches past memProcs and memText: of the offset and length of every
\* read made, and, between calls, of every offset from 0 to past the last
\* process's window with each length a case asks for and two it does not.
C9_CasesDisjoint ==
    /\ MemRead => Cardinality(CasesOf(call.off, call.blen)) <= 1
    /\ Idle =>
          \A off \in 0 .. memText + 64 * (MaxProcs + 1),
             n \in {0, 2, memTTYSize, memReadLen, memReadLen + 8} :
                Cardinality(CasesOf(off, n)) <= 1

C9_Witness ==
    /\ MemRead /\ ~panicked
    /\ call.off = memText /\ call.blen = memReadLen /\ call.ret = memReadLen
    /\ memTTY + memTTYSize * Len(TTY) > memText
    /\ (call.off - memTTY) % memTTYSize = 0

\* C10: the count memdev.read returns is never more than len(b).
C10_CountWithinBuffer == (MemRead /\ ~panicked) => call.ret <= call.blen

====
